---------------------------- MODULE Spec2Model ----------------------------
(***************************************************************************)
(* A model of the f1-clustering pipeline: processing.py (feature rows and  *)
(* the per-track loader), clustering.py (balancing, DBSCAN, driver         *)
(* profiles, similarity matrices), visualisation.py (the guards and the    *)
(* projection's shape) and main.py (the orchestrator and the insights).    *)
(*                                                                         *)
(* Numbers.  Telemetry cells are small integers or NaN.  Every derived     *)
(* real is kept in fixed point with three decimals (ONE = 1.0), rounded at *)
(* each division and square root; NaN and the two infinities are three     *)
(* reserved values outside the range every finite value stays in.          *)
(*                                                                         *)
(* Sizes.  The source's sample cap (800), its minimum table size (100) and *)
(* the DBSCAN configuration are kept as named constants; the first two are *)
(* scaled to the bounded tables (see N_SAMPLES_PER_DRIVER,                 *)
(* MIN_TRACK_SAMPLES).                                                     *)
(***************************************************************************)
EXTENDS Integers, Sequences, FiniteSets, TLC

(***************************************************************************)
(* Numbers                                                                 *)
(***************************************************************************)
ONE == 10 * 10 * 10

NaN == 2000000001
PosInf == 2000000000
NegInf == -2000000000

IsNaN(v) == v = NaN
IsInf(v) == v \in {PosInf, NegInf}
IsFinite(v) == ~IsNaN(v) /\ ~IsInf(v)

Abs(a) == IF a < 0 THEN -a ELSE a
Min(a, b) == IF a <= b THEN a ELSE b
Max(a, b) == IF a >= b THEN a ELSE b

\* a / b (b > 0) rounded to the nearest integer, halves away from zero
RDiv(a, b) == IF a >= 0 THEN (2 * a + b) \div (2 * b)
              ELSE -((2 * (-a) + b) \div (2 * b))

RECURSIVE SqrtIter(_, _, _)
SqrtIter(v, lo, hi) ==
  IF lo >= hi THEN lo
  ELSE LET mid == (lo + hi + 1) \div 2
       IN IF mid * mid <= v THEN SqrtIter(v, mid, hi)
          ELSE SqrtIter(v, lo, mid - 1)

\* floor of the square root of v >= 0
Sqrt(v) ==
  SqrtIter(v, 0, IF v < 10000 THEN Min(v, 100) ELSE IF v < 1000000 THEN 1000
                 ELSE IF v < 100000000 THEN 10000 ELSE 46340)

RECURSIVE SumSeq(_)
SumSeq(s) == IF s = <<>> THEN 0 ELSE Head(s) + SumSeq(Tail(s))

RECURSIVE MaxSeq(_)
MaxSeq(s) == IF Len(s) = 1 THEN s[1] ELSE Max(Head(s), MaxSeq(Tail(s)))

\* a sequence, or a function, given by a rule, with its values computed
Tup(f) == f \o <<>>
Fn(f) == f @@ <<>>

RECURSIVE Concat(_)
Concat(ss) == IF ss = <<>> THEN <<>> ELSE Head(ss) \o Concat(Tail(ss))

\* the elements of s in order of first appearance (pandas Series.unique)
RECURSIVE Unique(_)
Unique(s) ==
  IF s = <<>> THEN <<>>
  ELSE LET u == Unique(SubSeq(s, 1, Len(s) - 1))
           x == s[Len(s)]
       IN IF \E i \in 1..Len(u) : u[i] = x THEN u ELSE Append(u, x)

\* IEEE arithmetic on integer-valued cells that may be NaN
FSub(a, b) == IF IsNaN(a) \/ IsNaN(b) THEN NaN ELSE a - b
FAbs(a) == IF IsNaN(a) THEN NaN ELSE Abs(a)
FMul(a, b) == IF IsNaN(a) \/ IsNaN(b) THEN NaN ELSE a * b
\* a / b as the fixed-point value of the IEEE quotient
FDiv(a, b) ==
  IF IsNaN(a) \/ IsNaN(b) THEN NaN
  ELSE IF b = 0 THEN (IF a > 0 THEN PosInf ELSE IF a < 0 THEN NegInf ELSE NaN)
  ELSE IF b > 0 THEN RDiv(a * ONE, b) ELSE RDiv(-(a * ONE), -b)
\* an integer-valued cell as a fixed-point value
Fx(a) == IF IsNaN(a) THEN NaN ELSE a * ONE
fillna(v, d) == IF IsNaN(v) THEN d ELSE v

\* mean of a non-empty sequence of finite fixed-point values
Mean(s) == RDiv(SumSeq(s), Len(s))

\* sum of squared deviations of the finite fixed-point values s from m,
\* each deviation divided by k first (k keeps the squares in range)
SumSqDev(s, m, k) == SumSeq(Tup([i \in 1..Len(s) |-> RDiv(s[i] - m, k) * RDiv(s[i] - m, k)]))

\* a divisor that brings the largest deviation of s from m under 10000
DevScale(s, m) ==
  LET big == MaxSeq(Tup([i \in 1..Len(s) |-> Abs(s[i] - m)]))
  IN IF big <= 10000 THEN 1 ELSE IF big <= 1000000 THEN 100 ELSE 100000

\* standard deviation of the finite fixed-point values s with ddof degrees
\* of freedom removed; NaN when nothing is left to divide by (0/0)
Std(s, ddof) ==
  IF Len(s) - ddof <= 0 THEN NaN
  ELSE LET m == Mean(s)
           k == DevScale(s, m)
       IN k * Sqrt(SumSqDev(s, m, k) \div (Len(s) - ddof))

(***************************************************************************)
(* config.py                                                               *)
(***************************************************************************)
TEAMS ==
  [Williams |-> <<"ALB", "SAI">>, Mercedes |-> <<"ANT", "RUS">>,
   Ferrari |-> <<"HAM", "LEC">>, RedBull |-> <<"VER", "TSU">>,
   McLaren |-> <<"PIA", "NOR">>]

TeamOrder == <<"Williams", "Mercedes", "Ferrari", "RedBull", "McLaren">>

\* eps is in hundredths
TRACK_CLUSTERING_PARAMS ==
  [Australia |-> [eps |-> 40, min_samples |-> 40],
   Bahrain |-> [eps |-> 35, min_samples |-> 50],
   China |-> [eps |-> 45, min_samples |-> 45],
   Japan |-> [eps |-> 40, min_samples |-> 35]]

DEFAULT_CLUSTERING_PARAMS == [eps |-> 40, min_samples |-> 45]

FEATURE_COLUMNS ==
  <<"RPM", "Speed", "nGear", "Throttle", "nBrake", "ThrottleRate",
    "BrakeIntensity", "GearEfficiency", "SpeedVariability", "Acceleration">>

(***************************************************************************)
(* processing.py                                                           *)
(***************************************************************************)
\* A table that may be None: None, or the rows of a DataFrame
NoneTable == [none |-> TRUE, rows |-> <<>>]
Table(rows) == [none |-> FALSE, rows |-> rows]

get_driver_team(driver_code) ==
  LET hits == SelectSeq(TeamOrder,
                     LAMBDA t : \E i \in 1..Len(TEAMS[t]) : TEAMS[t][i] = driver_code)
  IN IF hits # <<>> THEN hits[1] ELSE "Unknown"

required_cols == <<"RPM", "Speed", "nGear", "Throttle">>

ROLLING_WINDOW == 10

\* df_clean['nBrake'] of row i: Brake as int when the file has a Brake
\* column, 0 when it has neither brake column, the nBrake column otherwise
BrakeColumn(file, i) ==
  IF "Brake" \in file.cols THEN file.rows[i].Brake
  ELSE IF "nBrake" \notin file.cols THEN 0
  ELSE file.rows[i].nBrake

\* the difference to the first row of the column
DiffToFirst(col, i) == IF i = 1 THEN NaN ELSE FSub(col[i], col[1])

\* Series.diff(): NaN on the first row
Diff(col, i) == IF i = 1 THEN NaN ELSE FSub(col[i], col[i - 1])

\* Series.rolling(10, min_periods=1).std() at row i: the sample standard
\* deviation of the non-NaN cells among the last 10, NaN when there is none
\* (min_periods) or one (0/0)
RollingStd(col, i) ==
  LET lo == Max(1, i - ROLLING_WINDOW + 1)
      obs == SelectSeq(SubSeq(col, lo, i), LAMBDA v : ~IsNaN(v))
  IN IF Len(obs) < 1 THEN NaN ELSE Std(Tup([k \in 1..Len(obs) |-> Fx(obs[k])]), 1)

NumericFields ==
  {"RPM", "Speed", "nGear", "Throttle", "nBrake", "ThrottleRate",
   "BrakeIntensity", "GearEfficiency", "SpeedVariability", "Acceleration"}

\* features.replace([inf, -inf], nan).dropna() keeps a row
RowIsClean(r) == \A f \in NumericFields : IsFinite(r[f])

\* A file is [driver, cols, rows]; the result is None or the feature rows.
process_driver_telemetry(file) ==
  IF "Brake" \in file.cols /\ \E i \in 1..Len(file.rows) : IsNaN(file.rows[i].Brake)
  THEN NoneTable  \* astype(int) raises on NaN; the handler returns None
  ELSE IF \E c \in 1..Len(required_cols) : required_cols[c] \notin file.cols
  THEN NoneTable
  ELSE
    LET n == Len(file.rows)
        Speed == Tup([i \in 1..n |-> file.rows[i].Speed])
        Throttle == Tup([i \in 1..n |-> file.rows[i].Throttle])
        features ==
          Tup([i \in 1..n |->
            [RPM |-> Fx(file.rows[i].RPM),
             Speed |-> Fx(Speed[i]),
             nGear |-> Fx(file.rows[i].nGear),
             Throttle |-> Fx(Throttle[i]),
             nBrake |-> Fx(BrakeColumn(file, i)),
             ThrottleRate |-> Fx(fillna(FAbs(Diff(Throttle, i)), 0)),
             BrakeIntensity |-> Fx(FMul(BrakeColumn(file, i), Speed[i])),
             GearEfficiency |-> FDiv(file.rows[i].RPM, FSub(file.rows[i].nGear, -1)),
             SpeedVariability |-> fillna(RollingStd(Speed, i), 0),
             Acceleration |-> Fx(fillna(Diff(Speed, i), 0)),
             Driver |-> file.driver,
             Team |-> get_driver_team(file.driver),
             idx |-> i]])
    IN Table(SelectSeq(features, RowIsClean))

\* driver_stats[driver_code] of one loaded driver
DriverStats(driver_code, rows) ==
  [samples |-> Len(rows),
   team |-> get_driver_team(driver_code),
   avg_speed |-> Mean(Tup([i \in 1..Len(rows) |-> rows[i].Speed])),
   max_speed |-> MaxSeq(Tup([i \in 1..Len(rows) |-> rows[i].Speed])),
   avg_throttle |-> Mean(Tup([i \in 1..Len(rows) |-> rows[i].Throttle])),
   brake_usage |-> Mean(Tup([i \in 1..Len(rows) |-> rows[i].nBrake]))]

\* pd.concat(..., ignore_index=True): the rows renumbered from 1
Reindex(rows) == Tup([i \in 1..Len(rows) |-> [rows[i] EXCEPT !.idx = i]])

\* whether load_track_data appends what process_driver_telemetry returned
IsLoaded(driver_data) == ~driver_data.none /\ Len(driver_data.rows) > 0

\* the loop that stops at the first file that yields nothing
KeptBeforeFailure(dir, processed) ==
  {k \in 1..Len(dir.files) : \A j \in 1..k : IsLoaded(processed[j])}

\* the files whose rows load_track_data appends to all_data: the loop goes
\* through every file, whatever the earlier ones yielded
KeptFiles(dir, processed) == {k \in 1..Len(dir.files) : IsLoaded(processed[k])}

\* what load_track_data returns once every file has been processed:
\* processed[k] is what process_driver_telemetry returned for the k-th file
LoadedFrom(dir, processed) ==
  LET ok == KeptFiles(dir, processed)
      last(d) == CHOOSE k \in ok : dir.files[k].driver = d
                    /\ \A j \in ok : dir.files[j].driver = d => j <= k
  IN IF ~dir.exists \/ dir.files = <<>> \/ ok = {}
     THEN [track_data |-> NoneTable, driver_stats |-> [none |-> TRUE, stats |-> <<>>]]
     ELSE [track_data |->
             Table(Reindex(Concat(Tup([k \in 1..Len(dir.files) |->
                                         IF k \in ok THEN processed[k].rows ELSE <<>>])))),
           driver_stats |->
             [none |-> FALSE,
              stats |-> Fn([d \in {dir.files[k].driver : k \in ok} |->
                              DriverStats(d, processed[last(d)].rows)])]]

\* A directory is [exists, files]: whether the track's path exists, and its
\* csv files in listing order.  The result is [track_data, driver_stats],
\* both None when the path is missing, holds no file, or nothing loads.
load_track_data(dir) ==
  LoadedFrom(dir, Tup([k \in 1..Len(dir.files) |-> process_driver_telemetry(dir.files[k])]))

(***************************************************************************)
(* clustering.py: cluster_track_data                                       *)
(***************************************************************************)
\* the cap on a driver's rows (n_samples_per_driver): 800 in the source,
\* scaled to the bounded tables
N_SAMPLES_PER_DRIVER == 2

RANDOM_STATE == 42

POS_SENTINEL == 999999

\* The generator behind DataFrame.sample.  numpy's Mersenne Twister is
\* modelled by a congruential generator: what matters is that the stream is a
\* function of the seed alone.
RngNext(s) == (s * 25173 + 13849) % 65536

\* the shuffle of 1..n drawn from generator state s: position i, from the
\* last down to the second, is swapped with a drawn position in 1..i
RECURSIVE Shuffle(_, _, _)
Shuffle(perm, i, s) ==
  IF i <= 1 THEN perm
  ELSE LET s2 == RngNext(s)
           j == (s2 % i) + 1
       IN Shuffle([perm EXCEPT ![i] = perm[j], ![j] = perm[i]], i - 1, s2)

\* a generator shared by all calls, so that each call starts where the one
\* before left it
CarriedSeed(calls) == RANDOM_STATE + calls

\* the generator state DataFrame.sample(random_state=42) starts from: a
\* fresh generator seeded with 42 on every call, whatever was drawn before
SampleSeed(calls) == RANDOM_STATE

\* driver_data.sample(n, random_state=42): n rows without replacement, in
\* the order the shuffle leaves them
Sample(rows, n, calls) ==
  LET perm == Shuffle(Tup([i \in 1..Len(rows) |-> i]), Len(rows), SampleSeed(calls))
  IN Tup([i \in 1..n |-> rows[perm[i]]])

\* the rows of one driver, in table order
DriverRows(rows, driver) == SelectSeq(rows, LAMBDA r : r.Driver = driver)

DriversOf(rows) == Unique(Tup([i \in 1..Len(rows) |-> rows[i].Driver]))

\* every row of the driver, however many there are
driver_sample_uncapped(rows, driver, cap, calls) == DriverRows(rows, driver)

\* the rows cluster_track_data keeps of one driver
driver_sample(rows, driver, cap, calls) ==
  LET driver_data == DriverRows(rows, driver)
  IN IF Len(driver_data) > cap THEN Sample(driver_data, cap, calls)
     ELSE driver_data

\* pd.concat(sampled_data, ignore_index=True); origin remembers the index
\* each row had in the table handed in
ConcatSampled(sampled) ==
  Tup([i \in 1..Len(sampled) |-> [idx |-> i, origin |-> sampled[i].idx] @@ sampled[i]])

\* the balanced table: every driver's sample, drivers in order of first
\* appearance
SampledTable(rows, cap, calls) ==
  ConcatSampled(Concat(Tup([k \in 1..Len(DriversOf(rows)) |->
                             driver_sample(rows, DriversOf(rows)[k], cap, calls)])))

\* np.nan_to_num(x, nan=0.0, posinf=999999, neginf=-999999)
nan_to_num(v) ==
  IF IsNaN(v) THEN 0
  ELSE IF v = PosInf THEN POS_SENTINEL * ONE
  ELSE IF v = NegInf THEN -(POS_SENTINEL * ONE)
  ELSE v

\* StandardScaler.fit_transform on one column: zero mean, unit population
\* variance; a constant column is only centred (its scale is set to 1)
ScaleColumn(col) ==
  LET m == Mean(col)
      sd == Std(col, 0)
      scale == IF sd = 0 THEN ONE ELSE sd
  IN Tup([i \in 1..Len(col) |-> RDiv((col[i] - m) * ONE, scale)])

\* StandardScaler.fit_transform on a matrix given as a sequence of rows
StandardScaler(matrix, ncols) ==
  IF matrix = <<>> THEN <<>>
  ELSE LET cols == Tup([c \in 1..ncols |->
                          ScaleColumn(Tup([i \in 1..Len(matrix) |-> matrix[i][c]]))])
       IN Tup([i \in 1..Len(matrix) |-> Tup([c \in 1..ncols |-> cols[c][i]])])

SqDist(a, b) == SumSeq(Tup([c \in 1..Len(a) |-> (a[c] - b[c]) * (a[c] - b[c])]))

\* the eps-neighbourhood of point i, itself included (eps in hundredths)
Neighbourhood(X, i, eps) ==
  {j \in 1..Len(X) : SqDist(X[i], X[j]) <= (eps * (ONE \div 100)) * (eps * (ONE \div 100))}

\* a core test that does not count the point itself
IsCoreByOthers(X, i, eps, min_samples) ==
  Cardinality(Neighbourhood(X, i, eps) \ {i}) >= min_samples

\* sklearn's core sample: the neighbourhood, the point itself counted, has
\* at least min_samples points
IsCore(X, i, eps, min_samples) == Cardinality(Neighbourhood(X, i, eps)) >= min_samples

\* everything the depth-first expansion from the points in frontier reaches
RECURSIVE Expand(_, _, _, _, _)
Expand(X, eps, min_samples, reached, frontier) ==
  IF frontier = {} THEN reached
  ELSE LET next == UNION {IF IsCore(X, i, eps, min_samples)
                          THEN Neighbourhood(X, i, eps) ELSE {} : i \in frontier}
       IN Expand(X, eps, min_samples, reached \cup frontier,
                 next \ (reached \cup frontier))

\* dbscan_inner: points in index order; an unlabelled core point starts the
\* next cluster, which takes every still unlabelled point it reaches
RECURSIVE DbscanFrom(_, _, _, _, _, _)
DbscanFrom(X, eps, min_samples, i, label_num, labels) ==
  IF i > Len(X) THEN labels
  ELSE IF labels[i] # -1 \/ ~IsCore(X, i, eps, min_samples)
  THEN DbscanFrom(X, eps, min_samples, i + 1, label_num, labels)
  ELSE LET reach == Expand(X, eps, min_samples, {}, {i})
           labelled == Tup([j \in 1..Len(X) |->
                             IF j \in reach /\ labels[j] = -1 THEN label_num ELSE labels[j]])
       IN DbscanFrom(X, eps, min_samples, i + 1, label_num + 1, labelled)

\* DBSCAN(eps, min_samples).fit_predict(X)
DBSCAN(X, eps, min_samples) ==
  DbscanFrom(X, eps, min_samples, 1, 0, Tup([i \in 1..Len(X) |-> -1]))

KnownTracks == DOMAIN TRACK_CLUSTERING_PARAMS

\* a lookup that falls back to the first configured track
FirstTrackParams(track_name) ==
  IF track_name \in KnownTracks THEN TRACK_CLUSTERING_PARAMS[track_name]
  ELSE TRACK_CLUSTERING_PARAMS["Australia"]

\* TRACK_CLUSTERING_PARAMS.get(track_name, DEFAULT_CLUSTERING_PARAMS)
ClusteringParams(track_name) ==
  IF track_name \in KnownTracks THEN TRACK_CLUSTERING_PARAMS[track_name]
  ELSE DEFAULT_CLUSTERING_PARAMS

features_matrix(rows) ==
  Tup([i \in 1..Len(rows) |->
         Tup([c \in 1..Len(FEATURE_COLUMNS) |-> nan_to_num(rows[i][FEATURE_COLUMNS[c]])])])

\* the sampled table with its Cluster column, and what the function prints
Clustered(sampled, params, clusters) ==
  [clustered_data |->
     Tup([i \in 1..Len(sampled) |-> [Cluster |-> clusters[i]] @@ sampled[i]]),
   params |-> params,
   n_clusters |-> Cardinality({clusters[i] : i \in 1..Len(clusters)} \ {-1}),
   n_noise |-> Cardinality({i \in 1..Len(clusters) : clusters[i] = -1})]

\* scaling and DBSCAN on the sampled table
FitPredict(sampled, params) ==
  Clustered(sampled, params,
            DBSCAN(StandardScaler(features_matrix(sampled), Len(FEATURE_COLUMNS)),
                   params.eps, params.min_samples))

\* the table handed in with a Cluster column set on it
DataWithClusterColumn(data) ==
  Tup([i \in 1..Len(data) |-> [Cluster |-> -1] @@ data[i]])

\* the table handed in, as the caller finds it after the call: the rows
\* were copied by the selection per driver and by pd.concat, and the Cluster
\* column is set on the concatenated table
DataAfterCall(data) == data

\* The table handed in is a sequence of feature rows.  The result is the
\* balanced table with a Cluster column, with the parameters DBSCAN was
\* built with and the two figures the function prints; data is the table
\* handed in as the call leaves it.
cluster_track_data(rows, track_name, n_samples_per_driver, calls) ==
  [data |-> DataAfterCall(rows)]
    @@ FitPredict(SampledTable(rows, n_samples_per_driver, calls), ClusteringParams(track_name))

(***************************************************************************)
(* clustering.py: analyze_driving_style_similarity                         *)
(***************************************************************************)
\* s with x inserted before the first element greater than x
RECURSIVE InsertSorted(_, _)
InsertSorted(s, x) ==
  IF s = <<>> THEN <<x>>
  ELSE IF x < Head(s) THEN <<x>> \o s
  ELSE <<Head(s)>> \o InsertSorted(Tail(s), x)

RECURSIVE SortAsc(_)
SortAsc(s) == IF s = <<>> THEN <<>> ELSE InsertSorted(SortAsc(Tail(s)), Head(s))

\* Series.quantile(q) with q = tenths / 10, on a non-empty column: linear
\* interpolation between the two order statistics around (n - 1) * q
Quantile(col, tenths) ==
  LET sorted == SortAsc(col)
      pos == tenths * (Len(col) - 1)
      lo == (pos \div 10) + 1
      frac == pos % 10
  IN IF frac = 0 THEN sorted[lo]
     ELSE sorted[lo] + RDiv(frac * (sorted[lo + 1] - sorted[lo]), 10)

Column(rows, f) == Tup([i \in 1..Len(rows) |-> rows[i][f]])

\* the 30th percentile of the Speed of every driver's rows
GlobalLowSpeedThreshold(clustered_data, driver_data) ==
  Quantile(Column(clustered_data, "Speed"), 3)

\* the speed threshold under which a row of driver_data counts as low speed
LowSpeedThreshold(clustered_data, driver_data) == Quantile(Column(driver_data, "Speed"), 3)

\* the speed threshold over which a row of driver_data counts as high speed
HighSpeedThreshold(clustered_data, driver_data) == Quantile(Column(driver_data, "Speed"), 7)

\* a profile value left as it was computed
KeepUndefined(v) == v

\* pd.isna(value) -> 0.0
NaNToZero(v) == IF IsNaN(v) THEN 0 ELSE v

PROFILE_FEATURES ==
  <<"avg_speed", "speed_variability", "max_speed", "throttle_aggression",
    "throttle_smoothness", "brake_frequency", "brake_intensity",
    "gear_efficiency", "acceleration_pattern", "acceleration_variability",
    "cornering_style", "straight_line_style">>

\* the profile before its undefined fields are replaced
RawProfile(clustered_data, driver_data) ==
  LET Speed == Column(driver_data, "Speed")
      Throttle == Column(driver_data, "Throttle")
      q30 == LowSpeedThreshold(clustered_data, driver_data)
      q70 == HighSpeedThreshold(clustered_data, driver_data)
      low_speed_data == SelectSeq(driver_data, LAMBDA r : r.Speed < q30)
      high_speed_data == SelectSeq(driver_data, LAMBDA r : r.Speed > q70)
  IN [avg_speed |-> Mean(Speed),
      speed_variability |-> Std(Speed, 1),
      max_speed |-> MaxSeq(Speed),
      throttle_aggression |-> Mean(Throttle),
      throttle_smoothness |-> RDiv(ONE * ONE, Mean(Column(driver_data, "ThrottleRate")) + (ONE \div 1000)),
      brake_frequency |-> Mean(Column(driver_data, "nBrake")),
      brake_intensity |-> Mean(Column(driver_data, "BrakeIntensity")),
      gear_efficiency |-> Mean(Column(driver_data, "GearEfficiency")),
      acceleration_pattern |-> Mean(Column(driver_data, "Acceleration")),
      acceleration_variability |-> Std(Column(driver_data, "Acceleration"), 1),
      cornering_style |-> IF Len(low_speed_data) > 0
                          THEN Mean(Column(low_speed_data, "Throttle")) ELSE Mean(Throttle),
      straight_line_style |-> IF Len(high_speed_data) > 0
                              THEN Mean(Column(high_speed_data, "Throttle")) ELSE Mean(Throttle)]

\* every undefined field of a profile replaced by 0.0
FillProfile(raw) == Fn([k \in DOMAIN raw |-> NaNToZero(raw[k])])

\* the profile stored for one driver
DriverProfile(clustered_data, driver) ==
  FillProfile(RawProfile(clustered_data, DriverRows(clustered_data, driver)))

\* sklearn normalize(X): every row divided by its length, a zero row kept
NormalizeRow(z) ==
  LET norm == Sqrt(SumSeq(Tup([c \in 1..Len(z) |-> z[c] * z[c]])))
  IN IF norm = 0 THEN z ELSE Tup([c \in 1..Len(z) |-> RDiv(z[c] * ONE, norm)])

cosine_similarity(X) ==
  LET N == Tup([i \in 1..Len(X) |-> NormalizeRow(X[i])])
  IN Tup([i \in 1..Len(X) |->
            Tup([j \in 1..Len(X) |->
                   RDiv(SumSeq(Tup([c \in 1..Len(N[i]) |-> N[i][c] * N[j][c]])), ONE)])])

\* euclidean_distances(X) with Y = X: the diagonal is set to zero
euclidean_distances(X) ==
  Tup([i \in 1..Len(X) |->
         Tup([j \in 1..Len(X) |-> IF i = j THEN 0 ELSE Sqrt(SqDist(X[i], X[j]))])])

\* the least number of profiles the matrices are computed for
MinProfiles == 2

\* a guard that lets a single profile through
NoProfiles(driver_profiles) == Cardinality(DOMAIN driver_profiles) < 1

\* whether the function returns the empty matrices
TooFewProfiles(driver_profiles) == Cardinality(DOMAIN driver_profiles) < MinProfiles

\* driver_profiles: one profile per driver of the table
DriverProfiles(clustered_data, drivers) ==
  Fn([d \in {drivers[k] : k \in 1..Len(drivers)} |-> DriverProfile(clustered_data, d)])

\* a profile matrix whose rows run through the drivers from the last to the
\* first
ProfileMatrixReversed(drivers, driver_profiles) ==
  Tup([k \in 1..Len(drivers) |->
         Tup([c \in 1..Len(PROFILE_FEATURES) |->
                nan_to_num(driver_profiles[drivers[Len(drivers) + 1 - k]][PROFILE_FEATURES[c]])])])

\* profile_matrix: one row per driver in the order of drivers, one column
\* per profile feature
ProfileMatrix(drivers, driver_profiles) ==
  Tup([k \in 1..Len(drivers) |->
         Tup([c \in 1..Len(PROFILE_FEATURES) |->
                nan_to_num(driver_profiles[drivers[k]][PROFILE_FEATURES[c]])])])

\* the two matrices of the standardized profiles
Matrices(drivers, driver_profiles, profile_matrix_scaled) ==
  [similarity_matrix |-> cosine_similarity(profile_matrix_scaled),
   distance_matrix |-> euclidean_distances(profile_matrix_scaled),
   drivers |-> drivers, driver_profiles |-> driver_profiles,
   standardized |-> TRUE]

\* what the function returns once the profiles are built
SimilarityOfProfiles(drivers, driver_profiles) ==
  IF TooFewProfiles(driver_profiles)
  THEN [similarity_matrix |-> <<>>, distance_matrix |-> <<>>,
        drivers |-> drivers, driver_profiles |-> driver_profiles,
        standardized |-> FALSE]
  ELSE Matrices(drivers, driver_profiles,
                StandardScaler(ProfileMatrix(drivers, driver_profiles),
                               Len(PROFILE_FEATURES)))

\* The result is the four values returned, whether the function went on to
\* standardize the profiles, and the table handed in as the call leaves it
\* (the function only reads it).
analyze_driving_style_similarity(clustered_data) ==
  [clustered_data |-> clustered_data] @@
  SimilarityOfProfiles(DriversOf(clustered_data),
                       DriverProfiles(clustered_data, DriversOf(clustered_data)))

(***************************************************************************)
(* visualisation.py                                                        *)
(***************************************************************************)
\* the values the function hands back: return fig, pca_result
VisualizationReturns == {"fig", "pca_result"}

\* The figure is "Figure"; the projection is given by its shape, one row per
\* driver (pca_index names the driver of each row) and n_components columns
\* (its coordinates are not computed here).  returns is the set of values
\* handed back; axis_labels is what the variance ratio is written to.
create_driving_style_visualizations(similarity_matrix, drivers, driver_profiles) ==
  IF Len(drivers) < 2
  THEN [fig |-> "Figure", pca_rows |-> 0, n_components |-> 0, pca_index |-> <<>>,
        heatmap |-> FALSE, axis_labels |-> {}, returns |-> VisualizationReturns]
  ELSE IF Cardinality(DOMAIN driver_profiles) >= 2
  THEN [fig |-> "Figure",
        pca_rows |-> Len(drivers),
        n_components |-> Min(2, Min(Len(PROFILE_FEATURES), Len(drivers))),
        pca_index |-> drivers,
        heatmap |-> Len(similarity_matrix) > 0,
        axis_labels |-> {"explained_variance_ratio"},
        returns |-> VisualizationReturns]
  ELSE [fig |-> "Figure", pca_rows |-> 0, n_components |-> 0, pca_index |-> <<>>,
        heatmap |-> Len(similarity_matrix) > 0, axis_labels |-> {},
        returns |-> VisualizationReturns]

(***************************************************************************)
(* main.py                                                                 *)
(***************************************************************************)
\* the pairs (i, j), i < j, in the order the two loops visit them
PairOrder(n) ==
  Concat(Tup([i \in 1..n |-> Tup([k \in 1..(n - i) |-> <<i, i + k>>])]))

\* the loop over the pairs: best is <<max_similarity, most_similar_pair>>,
\* the pair <<>> while none was taken
RECURSIVE ScanPairs(_, _, _)
ScanPairs(similarity_matrix, pairs, best) ==
  IF pairs = <<>> THEN best
  ELSE LET i == Head(pairs)[1]
           j == Head(pairs)[2]
           similarity == similarity_matrix[i][j]
       IN ScanPairs(similarity_matrix, Tail(pairs),
                    IF similarity > best[1] THEN <<similarity, <<i, j>>>> ELSE best)

\* max_similarity before the loop
InitialMaxSimilarity == 0

\* an insertion that puts x before the elements of equal key, as reversing
\* an ascending sort would
RECURSIVE InsertDescTiesFirst(_, _, _)
InsertDescTiesFirst(s, x, key) ==
  IF s = <<>> THEN <<x>>
  ELSE IF key[x] >= key[Head(s)] THEN <<x>> \o s
  ELSE <<Head(s)>> \o InsertDescTiesFirst(Tail(s), x, key)

\* sorted(drivers, key=..., reverse=True): descending, and stable (drivers
\* with equal keys keep their order)
RECURSIVE InsertDesc(_, _, _)
InsertDesc(s, x, key) ==
  IF s = <<>> THEN <<x>>
  ELSE IF key[x] > key[Head(s)] THEN <<x>> \o s
  ELSE <<Head(s)>> \o InsertDesc(Tail(s), x, key)

RECURSIVE SortedDesc(_, _)
SortedDesc(s, key) ==
  IF s = <<>> THEN <<>>
  ELSE InsertDesc(SortedDesc(SubSeq(s, 1, Len(s) - 1), key), s[Len(s)], key)

Top2(s) == SubSeq(s, 1, Min(2, Len(s)))

\* whether print_analysis_insights returns before the detailed insights
InsightsGuard(similarity_matrix, drivers) ==
  Len(similarity_matrix) = 0 \/ Len(drivers) < 2

\* What the function prints: detailed is FALSE when it stops at the guard;
\* pair is the most similar pair printed (<<>> when no line is printed);
\* raised is TRUE when indexing the matrix fails.
print_analysis_insights(similarity_matrix, drivers, driver_profiles) ==
  IF InsightsGuard(similarity_matrix, drivers)
  THEN [detailed |-> FALSE, raised |-> FALSE, pair |-> <<>>, max_similarity |-> 0,
        aggressive |-> <<>>, smooth |-> <<>>]
  ELSE IF Len(drivers) >= 2 /\ Len(similarity_matrix) < Len(drivers)
  THEN [detailed |-> TRUE, raised |-> TRUE, pair |-> <<>>, max_similarity |-> 0,
        aggressive |-> <<>>, smooth |-> <<>>]
  ELSE
    LET best == ScanPairs(similarity_matrix, PairOrder(Len(drivers)),
                          <<InitialMaxSimilarity, <<>>>>)
        agg == Fn([d \in DOMAIN driver_profiles |-> driver_profiles[d].throttle_aggression])
        smo == Fn([d \in DOMAIN driver_profiles |-> driver_profiles[d].throttle_smoothness])
    IN [detailed |-> TRUE, raised |-> FALSE,
        pair |-> IF best[2] = <<>> THEN <<>> ELSE <<drivers[best[2][1]], drivers[best[2][2]]>>,
        max_similarity |-> best[1],
        aggressive |-> IF DOMAIN driver_profiles # {} THEN Top2(SortedDesc(drivers, agg)) ELSE <<>>,
        smooth |-> IF DOMAIN driver_profiles # {} THEN Top2(SortedDesc(drivers, smo)) ELSE <<>>]

\* the number of samples a track must exceed: 100 in the source, scaled to
\* the bounded tables
MIN_TRACK_SAMPLES == 2

\* whether analyze_single_track goes on to cluster what was loaded
EnoughData(track_data) == ~track_data.none /\ Len(track_data.rows) > MIN_TRACK_SAMPLES

available_tracks == <<"Australia", "Bahrain", "China", "Japan">>

\* a loop that stores every result
KeepAny(result) == TRUE

\* whether analyze_all_tracks_driving_styles stores a track's result
KeepResult(result) == result.fig # "None"

(***************************************************************************)
(* The telemetry on disk                                                   *)
(***************************************************************************)
MaxDrivers == 3
MaxRuns == 2

\* the driver code of the k-th file of a directory
DriverCodes == <<"VER", "HAM", "NOR", "ALB", "XXX">>

Row(rpm, speed, gear, throttle, brake) ==
  [RPM |-> rpm, Speed |-> speed, nGear |-> gear, Throttle |-> throttle,
   Brake |-> brake, nBrake |-> brake]

Required == {"RPM", "Speed", "nGear", "Throttle"}

\* The csv contents most files are drawn from: more rows than the cap;
\* constant speed and throttle; no Throttle column; two plain rows.
CommonContents ==
  { [cols |-> Required \cup {"Brake"},
     rows |-> <<Row(6, 1, 1, 1, 0), Row(6, 2, 2, 3, 0), Row(8, 3, 3, 2, 1)>>],
    [cols |-> Required \cup {"nBrake"},
     rows |-> <<Row(4, 2, 1, 1, 0), Row(4, 2, 1, 1, 1)>>],
    [cols |-> {"RPM", "Speed", "nGear", "Brake"},
     rows |-> <<Row(6, 1, 1, 1, 0), Row(6, 2, 2, 3, 1)>>],
    [cols |-> Required \cup {"Brake"},
     rows |-> <<Row(8, 4, 3, 4, 0), Row(6, 2, 2, 1, 1)>>] }

\* More contents: a single row; rows whose gear is -1 (a division by zero);
\* no row that survives; no brake column and a first row without Throttle.
RareContents ==
  { [cols |-> Required,
     rows |-> <<Row(6, 3, 2, 2, 0)>>],
    [cols |-> Required \cup {"Brake"},
     rows |-> <<Row(6, 1, -1, 0, 0), Row(4, 2, 1, 2, 1), Row(6, 4, 2, 3, 0)>>],
    [cols |-> Required \cup {"nBrake"},
     rows |-> <<Row(0, 2, -1, 1, 0), Row(6, NaN, 1, 2, 0)>>],
    [cols |-> Required,
     rows |-> <<Row(6, 2, 1, NaN, 0), Row(6, 3, 1, 2, 0), Row(4, 1, 2, 1, 0)>>] }

FileContents == CommonContents \cup RareContents

\* the directories of n files with contents from C: the k-th file belongs
\* to the k-th driver
DirsOfLen(n, C) ==
  {Tup([k \in 1..n |-> [driver |-> DriverCodes[k], cols |-> c[k].cols, rows |-> c[k].rows]]) :
     c \in [1..n -> C]}

\* the directories of up to MaxDrivers files; a full directory draws from
\* the common contents
Dirs ==
  UNION {DirsOfLen(n, FileContents) : n \in 0..(MaxDrivers - 1)}
  \cup DirsOfLen(MaxDrivers, CommonContents)

TrackIds == {"Australia", "Bahrain", "China", "Japan", "Monaco"}

\* the tracks analyze_single_track is called for directly
SingleCallTracks == {"Monaco"}

MissingDir == [exists |-> FALSE, files |-> <<>>]

\* what is on disk: every track holds the same files, or the files are few
\* and one track's directory is missing
Disks ==
  {[t \in TrackIds |-> [exists |-> TRUE, files |-> d]] : d \in Dirs}
  \cup {[t \in TrackIds |-> IF t = m THEN MissingDir ELSE [exists |-> TRUE, files |-> d]] :
          d \in DirsOfLen(1, FileContents) \cup DirsOfLen(2, FileContents), m \in TrackIds}

(***************************************************************************)
(* State                                                                   *)
(***************************************************************************)
VARIABLES
  fs,           \* track -> directory of telemetry files
  pc,           \* "idle", or "loop" while an entry point runs
  call,         \* the entry point running or last run: "none", "all", "single"
  queue,        \* the tracks the running call has still to analyse
  track_data,   \* load_track_data's table for the last track
  driver_stats, \* load_track_data's statistics for the last track
  clustering,   \* what cluster_track_data returned last
  analysis,     \* what analyze_driving_style_similarity returned last
  viz,          \* what create_driving_style_visualizations returned last
  insights,     \* what print_analysis_insights printed last
  result,       \* what analyze_single_track returned last
  results,      \* the mapping analyze_all_tracks_driving_styles builds
  log,          \* one entry per track the running or last call has finished
  runs,         \* entry-point calls finished so far
  first         \* per track, the table and profiles of its first analysis

vars == <<fs, pc, call, queue, track_data, driver_stats, clustering, analysis, viz, insights,
          result, results, log, runs, first>>

With(rec, extra) == extra @@ rec

NoClustering ==
  [done |-> FALSE, clustered_data |-> <<>>, params |-> DEFAULT_CLUSTERING_PARAMS,
   n_clusters |-> 0, n_noise |-> 0, data |-> <<>>, input |-> <<>>, track |-> "",
   cap |-> 0, calls |-> 0]
NoAnalysis ==
  [done |-> FALSE, similarity_matrix |-> <<>>, distance_matrix |-> <<>>,
   drivers |-> <<>>, driver_profiles |-> <<>>, standardized |-> FALSE,
   clustered_data |-> <<>>, input |-> <<>>]
NoViz ==
  [done |-> FALSE, fig |-> "None", pca_rows |-> 0, n_components |-> 0, pca_index |-> <<>>,
   heatmap |-> FALSE, axis_labels |-> {}, returns |-> {}]
NoInsights ==
  [done |-> FALSE, detailed |-> FALSE, raised |-> FALSE, pair |-> <<>>,
   max_similarity |-> 0, aggressive |-> <<>>, smooth |-> <<>>]
NoneResult == [fig |-> "None", none |-> TRUE, driver_profiles |-> <<>>]
NoStats == [none |-> TRUE, stats |-> <<>>]
NotSeen == [seen |-> FALSE, clustered_data |-> <<>>, driver_profiles |-> <<>>, calls |-> 0]

Init ==
  /\ fs \in Disks
  /\ pc = "idle"
  /\ call = "none"
  /\ queue = <<>>
  /\ track_data = NoneTable
  /\ driver_stats = NoStats
  /\ clustering = NoClustering
  /\ analysis = NoAnalysis
  /\ viz = NoViz
  /\ insights = NoInsights
  /\ result = NoneResult
  /\ results = <<>>
  /\ log = <<>>
  /\ runs = 0
  /\ first = [t \in TrackIds |-> NotSeen]

(***************************************************************************)
(* Entry points                                                            *)
(***************************************************************************)
Enter(kind, tracks) ==
  /\ pc = "idle"
  /\ runs < MaxRuns
  /\ pc' = "loop"
  /\ call' = kind
  /\ queue' = tracks
  /\ track_data' = NoneTable
  /\ driver_stats' = NoStats
  /\ clustering' = NoClustering
  /\ analysis' = NoAnalysis
  /\ viz' = NoViz
  /\ insights' = NoInsights
  /\ result' = NoneResult
  /\ results' = <<>>
  /\ log' = <<>>
  /\ UNCHANGED <<fs, runs, first>>

\* analyze_all_tracks_driving_styles is called
CallAnalyzeAll == Enter("all", available_tracks)

\* analyze_single_track is called for one track
CallAnalyzeSingle == \E t \in SingleCallTracks : Enter("single", <<t>>)

\* Before anything else has run, analyze_driving_style_similarity is called
\* on its own, with an empty table or with the feature table of the first
\* track.
CallAnalyzeSimilarity ==
  /\ pc = "idle"
  /\ runs = 0
  /\ ~analysis.done
  /\ \E tbl \in {<<>>, load_track_data(fs[available_tracks[1]]).track_data.rows} :
       analysis' = With(analyze_driving_style_similarity(tbl), [done |-> TRUE, input |-> tbl])
  /\ UNCHANGED <<fs, pc, call, queue, track_data, driver_stats, clustering, viz, insights, result,
                 results, log, runs, first>>

(***************************************************************************)
(* analyze_single_track, and the loop around it                            *)
(***************************************************************************)
\* The running call takes the result of the track at the head of the queue:
\* analyze_all stores it when its figure is not None and goes on to the next
\* track; after the last track the call returns.  A stage that raises ends
\* the call there.
FinishTrack(res, entry) ==
  /\ result' = res
  /\ results' = IF call = "all" /\ ~entry.raised /\ KeepResult(res)
                THEN (Head(queue) :> res) @@ results
                ELSE results
  /\ log' = Append(log, entry)
  /\ queue' = IF entry.raised THEN <<>> ELSE Tail(queue)
  /\ pc' = IF entry.raised \/ Tail(queue) = <<>> THEN "idle" ELSE "loop"
  /\ runs' = IF entry.raised \/ Tail(queue) = <<>> THEN runs + 1 ELSE runs
  /\ UNCHANGED <<fs, call>>

\* analyze_single_track(track) once the track is loaded: when there is
\* enough data, cluster, analyse, draw and print, and return the figure and
\* the profiles; otherwise return (None, None)
AnalyzeLoaded(t, loaded) ==
  /\ driver_stats' = loaded.driver_stats
  /\ IF EnoughData(loaded.track_data)
     THEN \E c \in {cluster_track_data(loaded.track_data.rows, t, N_SAMPLES_PER_DRIVER, runs)} :
          \E a \in {analyze_driving_style_similarity(c.clustered_data)} :
          \E v \in {create_driving_style_visualizations(a.similarity_matrix, a.drivers,
                                                        a.driver_profiles)} :
          \E p \in {print_analysis_insights(a.similarity_matrix, a.drivers,
                                            a.driver_profiles)} :
            /\ track_data' = Table(c.data)
            /\ clustering' = With(c, [done |-> TRUE, input |-> loaded.track_data.rows,
                                      track |-> t, cap |-> N_SAMPLES_PER_DRIVER,
                                      calls |-> runs,
                                      clustered_data |-> a.clustered_data])
            /\ analysis' = With(a, [done |-> TRUE, input |-> c.clustered_data])
            /\ viz' = With(v, [done |-> TRUE])
            /\ insights' = With(p, [done |-> TRUE])
            /\ first' = IF first[t].seen THEN first
                        ELSE [first EXCEPT ![t] =
                                [seen |-> TRUE, clustered_data |-> c.clustered_data,
                                 driver_profiles |-> a.driver_profiles, calls |-> runs]]
            /\ FinishTrack([fig |-> v.fig, none |-> FALSE,
                            driver_profiles |-> a.driver_profiles],
                           [track |-> t, loaded |-> TRUE,
                            samples |-> Len(loaded.track_data.rows),
                            clustered |-> TRUE, profiles |-> Len(a.drivers),
                            detailed |-> p.detailed, raised |-> p.raised,
                            fig |-> v.fig])
     ELSE /\ track_data' = loaded.track_data
          /\ clustering' = NoClustering
          /\ analysis' = NoAnalysis
          /\ viz' = NoViz
          /\ insights' = NoInsights
          /\ first' = first
          /\ FinishTrack(NoneResult,
                         [track |-> t, loaded |-> ~loaded.track_data.none,
                          samples |-> Len(loaded.track_data.rows),
                          clustered |-> FALSE, profiles |-> 0, detailed |-> FALSE,
                          raised |-> FALSE, fig |-> "None"])

\* the running call analyses the track at the head of its queue
AnalyzeSingleTrack ==
  /\ pc = "loop"
  /\ \E loaded \in {load_track_data(fs[Head(queue)])} : AnalyzeLoaded(Head(queue), loaded)

Next ==
  \/ CallAnalyzeAll
  \/ CallAnalyzeSingle
  \/ CallAnalyzeSimilarity
  \/ AnalyzeSingleTrack

Spec == Init /\ [][Next]_vars

(***************************************************************************)
(* cluster_track_data on small tables, with small DBSCAN parameters        *)
(***************************************************************************)
MaxPoints == 4
MaxSpeed == 4
MaxMinSamples == 3

\* eps in hundredths: the default 0.4, and 1.0
EpsValues == {40, 100}

\* a file of one row, of the given speed
PointFile(k, speed) ==
  [driver |-> DriverCodes[k], cols |-> Required, rows |-> <<Row(6, speed, 2, 2, 0)>>]

\* the directories of up to MaxPoints one-row files
PointDirs ==
  UNION {{Tup([k \in 1..n |-> PointFile(k, c[k])]) : c \in [1..n -> 0..MaxSpeed]} :
           n \in 1..MaxPoints}

InitLabels ==
  /\ fs \in {[t \in TrackIds |-> [exists |-> TRUE, files |-> d]] : d \in PointDirs}
  /\ pc = "idle"
  /\ call = "none"
  /\ queue = <<>>
  /\ track_data = NoneTable
  /\ driver_stats = NoStats
  /\ clustering = NoClustering
  /\ analysis = NoAnalysis
  /\ viz = NoViz
  /\ insights = NoInsights
  /\ result = NoneResult
  /\ results = <<>>
  /\ log = <<>>
  /\ runs = 0
  /\ first = [t \in TrackIds |-> NotSeen]

\* the table of a track is loaded, balanced, scaled and labelled with a
\* pair of DBSCAN parameters
ClusterPoints ==
  /\ ~clustering.done
  /\ \E t \in {available_tracks[1]} :
     \E loaded \in {load_track_data(fs[t])} :
     \E eps \in EpsValues, min_samples \in 2..MaxMinSamples :
     \E c \in {FitPredict(SampledTable(loaded.track_data.rows, N_SAMPLES_PER_DRIVER, runs),
                          [eps |-> eps, min_samples |-> min_samples])} :
       /\ track_data' = loaded.track_data
       /\ driver_stats' = loaded.driver_stats
       /\ clustering' = With(c, [done |-> TRUE, data |-> loaded.track_data.rows,
                                 input |-> loaded.track_data.rows,
                                 track |-> t, cap |-> N_SAMPLES_PER_DRIVER,
                                 calls |-> runs])
  /\ UNCHANGED <<fs, pc, call, queue, analysis, viz, insights, result, results, log,
                 runs, first>>

NextLabels == ClusterPoints

SpecLabels == InitLabels /\ [][NextLabels]_vars

(***************************************************************************)
(* Properties                                                              *)
(***************************************************************************)
DriverSet(tbl) == {tbl[i].Driver : i \in DOMAIN tbl}

RowCount(tbl, d) == Cardinality({i \in DOMAIN tbl : tbl[i].Driver = d})

FeatureFields == NumericFields \cup {"Driver", "Team"}

SameRow(r1, r2) == \A f \in FeatureFields : r1[f] = r2[f]

Defined(v) == v \notin {NaN, PosInf, NegInf}

\* the track the last load was for
LoadedTrack == log[Len(log)].track

\* C1: for every driver of the table handed to cluster_track_data, the
\* returned table holds exactly min(raw_row_count, cap) rows of that driver;
\* every returned row is a row of the input, no input row is returned twice,
\* and the returned table has sum over drivers of min(raw_row_count, cap)
\* rows.
C1_Balancing ==
  clustering.done =>
    LET inp == clustering.input
        outp == clustering.clustered_data
        cap == clustering.cap
    IN /\ DriverSet(outp) = DriverSet(inp)
       /\ \A d \in DriverSet(inp) : RowCount(outp, d) = Min(RowCount(inp, d), cap)
       /\ \A i \in DOMAIN outp :
            /\ outp[i].origin \in DOMAIN inp
            /\ SameRow(outp[i], inp[outp[i].origin])
       /\ \A i, j \in DOMAIN outp : i # j => outp[i].origin # outp[j].origin
       /\ Len(outp) = SumSeq(Tup([k \in 1..Len(DriversOf(inp)) |->
                               Min(RowCount(inp, DriversOf(inp)[k]), cap)]))

\* a table was clustered in which one driver has more rows than the cap and
\* another has no more than the cap
C1_Witness ==
  /\ clustering.done
  /\ \E d1, d2 \in DriverSet(clustering.input) :
       /\ RowCount(clustering.input, d1) > clustering.cap
       /\ RowCount(clustering.input, d2) <= clustering.cap
       /\ RowCount(clustering.clustered_data, d1) = clustering.cap

\* what counts as equal to 1.0 for a computed similarity
Tolerance == ONE \div 100

\* C2: whenever analyze_driving_style_similarity computes the matrices (2 or
\* more profiles), both are square of size driver-count and symmetric, every
\* diagonal entry of the similarity matrix is 1.0 and every diagonal entry of
\* the distance matrix is 0.0.
C2_MatrixProperties ==
  (analysis.done /\ analysis.standardized) =>
    LET S == analysis.similarity_matrix
        D == analysis.distance_matrix
        n == Len(analysis.drivers)
    IN /\ Len(S) = n
       /\ Len(D) = n
       /\ \A i \in 1..n : Len(S[i]) = n /\ Len(D[i]) = n
       /\ \A i, j \in 1..n : S[i][j] = S[j][i] /\ D[i][j] = D[j][i]
       /\ \A i \in 1..n : Abs(S[i][i] - ONE) <= Tolerance /\ D[i][i] = 0

\* C3: when the table yields fewer than 2 driver profiles, the function
\* returns empty similarity and distance matrices with the driver list and
\* the profile mapping built so far, and does not standardize.
C3_InsufficientDataGuard ==
  (analysis.done /\ Cardinality(DriverSet(analysis.input)) < 2) =>
    /\ analysis.similarity_matrix = <<>>
    /\ analysis.distance_matrix = <<>>
    /\ ~analysis.standardized
    /\ Len(analysis.drivers) = Cardinality(DriverSet(analysis.input))
    /\ {analysis.drivers[k] : k \in DOMAIN analysis.drivers} = DriverSet(analysis.input)
    /\ DOMAIN analysis.driver_profiles = DriverSet(analysis.input)

\* the pipeline analysed a clustered table of exactly one driver
C3_Witness ==
  /\ analysis.done
  /\ clustering.done
  /\ Cardinality(DriverSet(analysis.input)) = 1
  /\ Len(analysis.drivers) = 1

\* the raw rows of a file whose gear is not -1
UsableRows(file) == Cardinality({i \in DOMAIN file.rows : file.rows[i].nGear # -1})

\* C4: no feature row that process_driver_telemetry returns holds an
\* infinite or undefined number, a raw row that would hold one (gear -1) is
\* removed; and every field of every driver profile is finite and defined,
\* the standard deviation of a single-row driver being 0.
C4_NoInvalidValues ==
  /\ \A i \in DOMAIN track_data.rows :
       \A f \in NumericFields : Defined(track_data.rows[i][f])
  /\ log # <<>> =>
       \A k \in DOMAIN fs[LoadedTrack].files :
         RowCount(track_data.rows, fs[LoadedTrack].files[k].driver)
           <= UsableRows(fs[LoadedTrack].files[k])
  /\ analysis.done =>
       \A d \in DOMAIN analysis.driver_profiles :
         /\ \A k \in DOMAIN analysis.driver_profiles[d] :
              Defined(analysis.driver_profiles[d][k])
         /\ RowCount(analysis.input, d) = 1 =>
              /\ analysis.driver_profiles[d].speed_variability = 0
              /\ analysis.driver_profiles[d].acceleration_variability = 0

\* a track was analysed in which one driver's file lost a row with gear -1
\* and another driver has a single row
C4_Witness ==
  /\ log # <<>>
  /\ analysis.done
  /\ \E k \in DOMAIN fs[LoadedTrack].files :
       /\ UsableRows(fs[LoadedTrack].files[k]) < Len(fs[LoadedTrack].files[k].rows)
       /\ RowCount(track_data.rows, fs[LoadedTrack].files[k].driver) > 0
  /\ \E d \in DOMAIN analysis.driver_profiles : RowCount(analysis.input, d) = 1

\* C5: a file that lacks one of RPM, Speed, nGear, Throttle yields None, its
\* driver is neither in the combined table nor in driver_stats, and every
\* driver whose file yields rows is in both with exactly those rows, wherever
\* the failing file stands in the directory.
C5_MissingColumns ==
  log # <<>> =>
    \A k \in DOMAIN fs[LoadedTrack].files :
      LET file == fs[LoadedTrack].files[k]
          own == SelectSeq(track_data.rows, LAMBDA r : r.Driver = file.driver)
          rows == process_driver_telemetry(file).rows
      IN /\ ~(Required \subseteq file.cols) =>
              /\ process_driver_telemetry(file).none
              /\ own = <<>>
              /\ file.driver \notin DOMAIN driver_stats.stats
         /\ IsLoaded(process_driver_telemetry(file)) =>
              /\ Len(own) = Len(rows)
              /\ \A i \in DOMAIN own : SameRow(own[i], rows[i])
              /\ file.driver \in DOMAIN driver_stats.stats
              /\ driver_stats.stats[file.driver].samples = Len(rows)

\* a directory was loaded in which a file without a required column comes
\* before a file that was loaded
C5_Witness ==
  /\ log # <<>>
  /\ \E k, j \in DOMAIN fs[LoadedTrack].files :
       /\ k < j
       /\ ~(Required \subseteq fs[LoadedTrack].files[k].cols)
       /\ RowCount(track_data.rows, fs[LoadedTrack].files[j].driver) > 0

\* the pairs i < j of 1..n
Pairs(n) == {p \in (1..n) \X (1..n) : p[1] < p[2]}

\* p comes no later than q in the order of the two loops
NoLater(p, q) == p[1] < q[1] \/ (p[1] = q[1] /\ p[2] <= q[2])

\* C6: whenever the matrix is non-empty and there are at least 2 drivers,
\* the pair reported is the pair i < j of maximum similarity, the first such
\* pair in iteration order.
C6_MostSimilarPair ==
  (insights.done /\ insights.detailed) =>
    LET S == analysis.similarity_matrix
        n == Len(analysis.drivers)
        best == CHOOSE p \in Pairs(n) :
                  \A q \in Pairs(n) :
                    \/ S[p[1]][p[2]] > S[q[1]][q[2]]
                    \/ S[p[1]][p[2]] = S[q[1]][q[2]] /\ NoLater(p, q)
    IN insights.pair = <<analysis.drivers[best[1]], analysis.drivers[best[2]]>>

\* C7: for a track absent from TRACK_CLUSTERING_PARAMS, DBSCAN is built with
\* eps 0.4 and min_samples 45; for a track in the table, with that track's
\* pair.
C7_UnknownTrackFallback ==
  clustering.done =>
    /\ clustering.track \notin DOMAIN TRACK_CLUSTERING_PARAMS =>
         clustering.params = [eps |-> 40, min_samples |-> 45]
    /\ clustering.track \in DOMAIN TRACK_CLUSTERING_PARAMS =>
         clustering.params = TRACK_CLUSTERING_PARAMS[clustering.track]

\* a track that is not configured was clustered
C7_Witness ==
  /\ clustering.done
  /\ clustering.track \notin DOMAIN TRACK_CLUSTERING_PARAMS
  /\ Len(clustering.clustered_data) > 0

\* the rows of driver d in the table handed to the analysis
Own(d) == SelectSeq(analysis.input, LAMBDA r : r.Driver = d)

\* the rows of driver d under the 30th, over the 70th percentile of the
\* driver's own Speed
OwnLow(d) == SelectSeq(Own(d), LAMBDA r : r.Speed < Quantile(Column(Own(d), "Speed"), 3))
OwnHigh(d) == SelectSeq(Own(d), LAMBDA r : r.Speed > Quantile(Column(Own(d), "Speed"), 7))

\* C8: cornering_style is the mean Throttle of the driver's rows under the
\* 30th percentile of the driver's own Speed, and the driver's overall mean
\* Throttle when there is no such row; straight_line_style likewise with the
\* rows over the driver's own 70th percentile.
C8_ConditionalThrottleMeans ==
  analysis.done =>
    \A d \in DOMAIN analysis.driver_profiles :
      /\ analysis.driver_profiles[d].cornering_style =
           IF OwnLow(d) = <<>> THEN Mean(Column(Own(d), "Throttle"))
           ELSE Mean(Column(OwnLow(d), "Throttle"))
      /\ analysis.driver_profiles[d].straight_line_style =
           IF OwnHigh(d) = <<>> THEN Mean(Column(Own(d), "Throttle"))
           ELSE Mean(Column(OwnHigh(d), "Throttle"))

\* a table was analysed in which one driver has no row under the own 30th
\* percentile and another has rows under it and rows over the own 70th
C8_Witness ==
  /\ analysis.done
  /\ \E d1, d2 \in DOMAIN analysis.driver_profiles :
       /\ OwnLow(d1) = <<>>
       /\ OwnLow(d2) # <<>>
       /\ OwnHigh(d2) # <<>>
       /\ Len(OwnLow(d2)) < Len(Own(d2))

\* the input rows kept, in the order of the clustered table
Origins(tbl) == Tup([i \in DOMAIN tbl |-> tbl[i].origin])

C10_OrchestratorTolerance ==
  call = "all" =>
    /\ Len(log) <= Len(available_tracks)
    /\ \A i \in DOMAIN log : log[i].track = available_tracks[i]
    /\ pc = "idle" => Len(log) = Len(available_tracks)
    /\ \A i \in DOMAIN log :
         /\ (~log[i].loaded \/ log[i].samples <= MIN_TRACK_SAMPLES) =>
              ~log[i].clustered /\ log[i].fig = "None"
         /\ (log[i].clustered /\ log[i].profiles < 2) =>
              ~log[i].detailed /\ log[i].fig # "None"
         /\ ~log[i].raised
    /\ DOMAIN results = {log[i].track : i \in {j \in DOMAIN log : log[j].fig # "None"}}

\* a call for all tracks returned after a missing track was followed by a
\* track with a single profile
C10_Witness ==
  /\ call = "all"
  /\ pc = "idle"
  /\ \E i, j \in DOMAIN log :
       /\ i < j
       /\ ~log[i].loaded
       /\ log[j].clustered
       /\ log[j].profiles < 2
       /\ log[j].track \in DOMAIN results

\* the number of drivers ranked before the k-th driver of the list by the
\* metric: those with a higher value, and those with an equal value that
\* come earlier in the list
RankOf(metric, k) ==
  Cardinality({j \in DOMAIN analysis.drivers :
                 LET vj == analysis.driver_profiles[analysis.drivers[j]][metric]
                     vk == analysis.driver_profiles[analysis.drivers[k]][metric]
                 IN vj > vk \/ (vj = vk /\ j < k)})

\* reported is the first two drivers in the ranking by the metric
IsTop2(reported, metric) ==
  /\ Len(reported) = Min(2, Len(analysis.drivers))
  /\ \A r \in DOMAIN reported :
       \E k \in DOMAIN analysis.drivers :
         reported[r] = analysis.drivers[k] /\ RankOf(metric, k) = r - 1

\* C11: the most aggressive drivers reported are the two with the highest
\* throttle_aggression and the smoothest the two with the highest
\* throttle_smoothness, in descending order, a driver coming before the
\* drivers of equal value that are later in the driver list.
C11_Top2Insights ==
  (insights.done /\ insights.detailed) =>
    /\ IsTop2(insights.aggressive, "throttle_aggression")
    /\ IsTop2(insights.smooth, "throttle_smoothness")

\* the insights were printed for three drivers of which the two reported as
\* most aggressive have equal throttle_aggression, above the third's
C11_Witness ==
  /\ insights.done
  /\ insights.detailed
  /\ Len(analysis.drivers) = 3
  /\ \E i, j, k \in DOMAIN analysis.drivers :
       /\ i < j
       /\ insights.aggressive = <<analysis.drivers[i], analysis.drivers[j]>>
       /\ analysis.driver_profiles[analysis.drivers[i]].throttle_aggression
            = analysis.driver_profiles[analysis.drivers[j]].throttle_aggression
       /\ analysis.driver_profiles[analysis.drivers[k]].throttle_aggression
            < analysis.driver_profiles[analysis.drivers[i]].throttle_aggression

\* C12: with 2 or more driver profiles the projection keeps min(2, number
\* of profile features, number of drivers) components and has one row per
\* driver in driver-list order, and the variance fraction of each component
\* is returned to the caller with the coordinates; with fewer than 2 drivers
\* no projection is computed and the result is empty.
C12_ProjectionComponentCap ==
  (viz.done /\ analysis.done) =>
    /\ Len(analysis.drivers) >= 2 =>
         /\ viz.n_components = Min(2, Min(Len(PROFILE_FEATURES), Len(analysis.drivers)))
         /\ viz.pca_rows = Len(analysis.drivers)
         /\ viz.pca_index = analysis.drivers
         /\ "explained_variance_ratio" \in viz.returns
    /\ Len(analysis.drivers) < 2 =>
         /\ viz.pca_rows = 0
         /\ viz.n_components = 0

\* the standardized feature matrix of a clustered table
Scaled(tbl) == StandardScaler(features_matrix(tbl), Len(FEATURE_COLUMNS))

\* the rows of the scaled matrix X within eps (hundredths) of row i, row i
\* among them
NearSet(X, eps, i) ==
  {j \in DOMAIN X :
     SqDist(X[i], X[j]) <= (eps * (ONE \div 100)) * (eps * (ONE \div 100))}

\* the neighbourhoods of all rows
NearSets(X, eps) == [i \in DOMAIN X |-> NearSet(X, eps, i)]

\* the rows with at least k rows within eps, themselves counted
DenseRows(near, k) == {i \in DOMAIN near : Cardinality(near[i]) >= k}

\* the rows with at least k other rows within eps
DenseByOthers(near, k) == {i \in DOMAIN near : Cardinality(near[i] \ {i}) >= k}

\* the rows density-reachable from the rows of D: the rows of D and the rows
\* within eps of one
Reached(near, D) == UNION {near[i] : i \in D}

\* the rows of D are labelled, rows outside it are noise
LabelledExactly(tbl, D) == \A i \in DOMAIN tbl : tbl[i].Cluster # -1 <=> i \in D

\* rows of D within eps of each other share a label
SharedLabels(tbl, near, D) ==
  \A i \in D : \A j \in near[i] \cap D : tbl[i].Cluster = tbl[j].Cluster

\* the neighbourhoods of the clustered table in the standardized space
ClusteredNear ==
  Fn(NearSets(Scaled(clustering.clustered_data), clustering.params.eps))

\* every row has one label, and the pattern count is the number of distinct
\* labels other than -1
LabelsWellFormed ==
  /\ \A i \in DOMAIN clustering.clustered_data :
       clustering.clustered_data[i].Cluster \in -1..(Len(clustering.clustered_data) - 1)
  /\ clustering.n_clusters =
       Cardinality({clustering.clustered_data[i].Cluster :
                      i \in DOMAIN clustering.clustered_data} \ {-1})

\* C13 as stated: a row has a label other than -1 exactly when it has at
\* least min_samples other rows within eps in the standardized feature space
\* or is density-reachable from such a row; every row has one label and the
\* pattern count is the number of distinct labels other than -1.
C13_LabelsByOtherPoints ==
  clustering.done =>
    /\ LabelledExactly(clustering.clustered_data,
         Reached(ClusteredNear, DenseByOthers(ClusteredNear, clustering.params.min_samples)))
    /\ LabelsWellFormed

\* C13 amended: a row has a label other than -1 exactly when it has at
\* least min_samples rows within eps, itself counted, or is density-reachable
\* from such a row; rows of one neighbourhood of such a row share its label;
\* every row has one label and the pattern count is the number of distinct
\* labels other than -1.
C13_LabelSemantics ==
  clustering.done =>
    /\ LabelledExactly(clustering.clustered_data,
         Reached(ClusteredNear, DenseRows(ClusteredNear, clustering.params.min_samples)))
    /\ SharedLabels(clustering.clustered_data, ClusteredNear,
         DenseRows(ClusteredNear, clustering.params.min_samples))
    /\ LabelsWellFormed

\* a table was labelled in which one row has exactly min_samples - 1 other
\* rows within eps, another row is labelled only because it is within eps of
\* such a row, and a third is noise
C13_Witness ==
  /\ clustering.done
  /\ \E i, j, k \in DOMAIN clustering.clustered_data :
       /\ Cardinality(ClusteredNear[i]) = clustering.params.min_samples
       /\ j \in ClusteredNear[i]
       /\ Cardinality(ClusteredNear[j]) < clustering.params.min_samples
       /\ clustering.clustered_data[j].Cluster = clustering.clustered_data[i].Cluster
       /\ clustering.clustered_data[i].Cluster # -1
       /\ clustering.clustered_data[k].Cluster = -1

\* the input rows of a file that hold a number in every column read and do
\* not divide by zero, in input order
Survivors(file) ==
  SelectSeq(Tup([i \in 1..Len(file.rows) |-> i]),
            LAMBDA i : /\ \A c \in Required : Defined(file.rows[i][c])
                       /\ file.rows[i].nGear # -1
                       /\ "nBrake" \in file.cols => Defined(file.rows[i].nBrake))

\* the brake flag of input row i
BrakeFlag(file, i) ==
  IF "Brake" \in file.cols THEN file.rows[i].Brake
  ELSE IF "nBrake" \in file.cols THEN file.rows[i].nBrake
  ELSE 0

\* the rows of the loaded table that came from a file
OwnRows(file) == SelectSeq(track_data.rows, LAMBDA r : r.Driver = file.driver)

\* row r of the features is derived from input row i of the file
DerivedFrom(file, i, r) ==
  /\ r.Throttle = file.rows[i].Throttle * ONE
  /\ r.Speed = file.rows[i].Speed * ONE
  /\ r.ThrottleRate >= 0
  /\ i = 1 => r.ThrottleRate = 0 /\ r.Acceleration = 0
  /\ (i > 1 /\ Defined(file.rows[i - 1].Throttle)) =>
       r.ThrottleRate = Abs(file.rows[i].Throttle - file.rows[i - 1].Throttle) * ONE
  /\ (i > 1 /\ Defined(file.rows[i - 1].Speed)) =>
       r.Acceleration = (file.rows[i].Speed - file.rows[i - 1].Speed) * ONE
  /\ r.nBrake = BrakeFlag(file, i) * ONE
  /\ r.BrakeIntensity = BrakeFlag(file, i) * file.rows[i].Speed * ONE
  /\ (file.cols \cap {"Brake", "nBrake"} = {}) => r.nBrake = 0 /\ r.BrakeIntensity = 0

\* C14: of the input rows of one driver in order, ThrottleRate of the first
\* row is 0 and of a later row the absolute Throttle difference to the input
\* row just before it, never negative; Acceleration of the first row is 0 and
\* of a later row the signed Speed difference to the input row just before
\* it; BrakeIntensity is the brake flag times Speed; a file with neither
\* brake column is processed, with brake flag and BrakeIntensity 0.
C14_TemporalDerivation ==
  log # <<>> =>
    \A k \in DOMAIN fs[LoadedTrack].files :
      /\ OwnRows(fs[LoadedTrack].files[k]) # <<>> =>
           /\ Len(OwnRows(fs[LoadedTrack].files[k]))
                = Len(Survivors(fs[LoadedTrack].files[k]))
           /\ \A j \in DOMAIN OwnRows(fs[LoadedTrack].files[k]) :
                DerivedFrom(fs[LoadedTrack].files[k],
                            Survivors(fs[LoadedTrack].files[k])[j],
                            OwnRows(fs[LoadedTrack].files[k])[j])
      /\ (/\ fs[LoadedTrack].files[k].cols \cap {"Brake", "nBrake"} = {}
          /\ Required \subseteq fs[LoadedTrack].files[k].cols
          /\ Survivors(fs[LoadedTrack].files[k]) # <<>>) =>
           OwnRows(fs[LoadedTrack].files[k]) # <<>>

\* a directory was loaded with a file without brake column that yields two
\* rows, the later one slowing down, and a file whose first row was removed
\* and whose second row brakes and differs in Throttle from the removed row
C14_Witness ==
  /\ log # <<>>
  /\ \E k \in DOMAIN fs[LoadedTrack].files :
       /\ fs[LoadedTrack].files[k].cols \cap {"Brake", "nBrake"} = {}
       /\ Len(OwnRows(fs[LoadedTrack].files[k])) >= 2
       /\ \E j \in DOMAIN OwnRows(fs[LoadedTrack].files[k]) :
            OwnRows(fs[LoadedTrack].files[k])[j].Acceleration < 0
  /\ \E k \in DOMAIN fs[LoadedTrack].files :
       /\ OwnRows(fs[LoadedTrack].files[k]) # <<>>
       /\ Survivors(fs[LoadedTrack].files[k])[1] > 1
       /\ OwnRows(fs[LoadedTrack].files[k])[1].ThrottleRate > 0
       /\ OwnRows(fs[LoadedTrack].files[k])[1].BrakeIntensity > 0

\* the first row of a driver in a table
FirstRow(tbl, d) ==
  CHOOSE i \in DOMAIN tbl : tbl[i].Driver = d /\ \A j \in 1..(i - 1) : tbl[j].Driver # d

\* the standardized profiles, row k being the profile of the k-th driver of
\* the list
ProfilesInListOrder(drivers, driver_profiles) ==
  StandardScaler(Tup([k \in 1..Len(drivers) |->
                        Tup([c \in 1..Len(PROFILE_FEATURES) |->
                               driver_profiles[drivers[k]][PROFILE_FEATURES[c]]])]),
                 Len(PROFILE_FEATURES))

\* C15: the returned driver list holds exactly the drivers with a row in the
\* table, each once, in order of first appearance; the profile mapping has
\* exactly those drivers as keys; and when the matrices are computed, their
\* dimension is the length of the list and row and column k are those of the
\* k-th driver of the list.
C15_DriverIndexing ==
  analysis.done =>
    /\ {analysis.drivers[k] : k \in DOMAIN analysis.drivers} = DriverSet(analysis.input)
    /\ \A k, l \in DOMAIN analysis.drivers :
         k < l => FirstRow(analysis.input, analysis.drivers[k])
                    < FirstRow(analysis.input, analysis.drivers[l])
    /\ DOMAIN analysis.driver_profiles = DriverSet(analysis.input)
    /\ analysis.standardized =>
         /\ Len(analysis.similarity_matrix) = Len(analysis.drivers)
         /\ Len(analysis.distance_matrix) = Len(analysis.drivers)
         /\ \A k \in DOMAIN analysis.drivers :
              /\ Len(analysis.similarity_matrix[k]) = Len(analysis.drivers)
              /\ Len(analysis.distance_matrix[k]) = Len(analysis.drivers)
         /\ analysis.similarity_matrix
              = cosine_similarity(ProfilesInListOrder(analysis.drivers,
                                                      analysis.driver_profiles))
         /\ analysis.distance_matrix
              = euclidean_distances(ProfilesInListOrder(analysis.drivers,
                                                        analysis.driver_profiles))

\* the matrices were computed for three drivers whose pairs differ in
\* distance
C15_Witness ==
  /\ analysis.done
  /\ analysis.standardized
  /\ Len(analysis.drivers) = 3
  /\ analysis.distance_matrix[1][2] # analysis.distance_matrix[2][3]

\* the columns of a table
ColumnsOf(tbl) == UNION {DOMAIN tbl[i] : i \in DOMAIN tbl}

=============================================================================
